---------------------------- MODULE Spec2Model ----------------------------
(***************************************************************************)
(* linux_max6675 (src/lib.rs): the Max6675 driver as a state machine.      *)
(*                                                                         *)
(* State: the driver's single field `spi: Option<Spidev>`, the caller's    *)
(* position (between two calls, or holding the value a call returned) and  *)
(* the record of the call that has just returned: its result and the SPI   *)
(* read syscalls it performed on the bus.                                  *)
(*                                                                         *)
(* Every method is one action.  The transport (`Spidev` seen as a          *)
(* `std::io::Read`) is the environment: each `read` syscall on it answers  *)
(* with 0..n bytes for a buffer of n bytes, or with an `io::Error`.        *)
(* `read_bytes` reaches the transport through `Read::read_exact`           *)
(* (lib.rs:129); `Spidev` implements only `read`, so this is the default   *)
(* method of the trait, modelled by what it is documented to do: it calls  *)
(* `read` on the unfilled rest of the buffer until the buffer is full,     *)
(* ignores errors of kind Interrupted, and turns a 0-byte read into an     *)
(* error of kind UnexpectedEof.                                            *)
(*                                                                         *)
(* Two lines of lib.rs are read by their evident intent: line 127-128      *)
(* (`self.spi.ok_or(..)`) as a borrow of the stored handle, which the      *)
(* read leaves in place, and line 177 as `((0x1FFF & (bytes >> 3)) as f64) *)
(* * 0.25`.                                                                *)
(*                                                                         *)
(* A temperature is represented by its number of 0.25-degree steps: the    *)
(* code's product `n as f64 * 0.25` is exact for every n below 2^13, so    *)
(* the f64 result is the step count n scaled by the constant 0.25.         *)
(***************************************************************************)
EXTENDS Integers, Sequences, FiniteSets

(* ------------------------------ bounds -------------------------------- *)

\* Most `read` syscalls the transport answers within one read_exact call.
MaxReads == 2

(* --------------------------- value domains ---------------------------- *)

\* `spi: None`
None == "None"

\* Device paths given to connect; a stored handle `Some(spidev)` is named by
\* the path it opened.
Paths == {"/dev/spidev0.0", "/dev/spidev0.1"}

\* Byte values the transport may deliver.
Bytes == 0..255

\* io::ErrorKind values a failing syscall may carry.
HardErrorKinds == {"TimedOut", "Other"}

\* io::ErrorKind of a syscall interrupted by a signal (EINTR).
Interrupted == "Interrupted"

\* io::ErrorKind that read_exact itself raises on end of file.
UnexpectedEof == "UnexpectedEof"

(* ----------------------------- Max6675Error --------------------------- *)

IoError(kind) == [kind |-> "Err", err |-> "IoError", source |-> kind, val |-> 0]

OpenCircuitError == [kind |-> "Err", err |-> "OpenCircuitError", source |-> "", val |-> 0]

SpiUninitialized == [kind |-> "Err", err |-> "SpiUninitialized", source |-> "", val |-> 0]

Ok(v) == [kind |-> "Ok", err |-> "", source |-> "", val |-> v]

(* ------------------------------ transport ----------------------------- *)

\* One answer of the transport to a `read` syscall.
Data(bs) == [t |-> "Data", bytes |-> bs, kind |-> ""]

Fail(k) == [t |-> "Err", bytes |-> <<>>, kind |-> k]

\* All sequences of exactly n bytes.
ByteSeqs(n) == [1..n -> Bytes]

\* The shapes of the transport's answers to the syscalls of one read_exact
\* call that still needs `need` bytes, the transport answering at most
\* `budget` syscalls: every sequence of answers (a number of bytes delivered,
\* or an error kind) after which read_exact returns.
RECURSIVE Shapes(_, _)
Shapes(need, budget) ==
    IF budget = 0 THEN {}
    ELSE {<<[n |-> need, kind |-> ""]>>, <<[n |-> 0, kind |-> ""]>>}
         \cup {<<[n |-> 0, kind |-> k]>> : k \in HardErrorKinds}
         \cup {<<[n |-> 0, kind |-> Interrupted]>> \o s : s \in Shapes(need, budget - 1)}
         \cup UNION {{<<[n |-> n, kind |-> ""]>> \o s : s \in Shapes(need - n, budget - 1)} :
                      n \in 1..(need - 1)}

\* Number of bytes a shape delivers.
RECURSIVE Delivered(_)
Delivered(shape) ==
    IF shape = <<>> THEN 0 ELSE Head(shape).n + Delivered(Tail(shape))

\* The answers of shape `shape` delivering the bytes `bs` in order.
RECURSIVE Answers(_, _)
Answers(shape, bs) ==
    IF shape = <<>> THEN <<>>
    ELSE LET h == Head(shape)
         IN  <<IF h.kind # "" THEN Fail(h.kind) ELSE Data(SubSeq(bs, 1, h.n))>>
             \o Answers(Tail(shape), SubSeq(bs, h.n + 1, Len(bs)))

(* --------------------------- pure functions --------------------------- *)

\* Bitwise AND of two naturals (`&` on u16).
RECURSIVE BitAnd(_, _)
BitAnd(a, b) ==
    IF a = 0 \/ b = 0 THEN 0
    ELSE (a % 2) * (b % 2) + 2 * BitAnd(a \div 2, b \div 2)

\* Logical shift right (`>>` on u16).
RECURSIVE Shr(_, _)
Shr(a, n) == IF n = 0 THEN a ELSE Shr(a \div 2, n - 1)

\* Mutant of from_be_bytes: the bytes taken least-significant first.
from_le_bytes(buf) == buf[2] * 256 + buf[1]

\* u16::from_be_bytes(buf)
from_be_bytes(buf) == buf[1] * 256 + buf[2]

(* ------------------------------ methods ------------------------------- *)

\* Read::read_exact(&mut buf) on the stored handle, buf = [0_u8; 2]: `filled`
\* are the bytes placed in buf so far, `io` the syscalls made so far (the bytes
\* each requested and the transport's answer), `script` the transport's
\* answers still to come.  `done` is FALSE when the answers run out before
\* read_exact returns.
RECURSIVE read_exact(_, _, _)
read_exact(script, filled, io) ==
    IF Len(filled) = 2
    THEN [done |-> TRUE, ok |-> TRUE, buf |-> filled, kind |-> "",
          io |-> io, rest |-> script]
    ELSE IF script = <<>>
    THEN [done |-> FALSE, ok |-> FALSE, buf |-> filled, kind |-> "",
          io |-> io, rest |-> script]
    ELSE LET out == Head(script)
             io2 == Append(io, [req |-> 2 - Len(filled), out |-> out])
         IN  IF out.t = "Data"
             THEN IF Len(out.bytes) = 0
                  THEN [done |-> TRUE, ok |-> FALSE, buf |-> filled,
                        kind |-> UnexpectedEof, io |-> io2, rest |-> Tail(script)]
                  ELSE read_exact(Tail(script), filled \o out.bytes, io2)
             ELSE IF out.kind = Interrupted
             THEN read_exact(Tail(script), filled, io2)
             ELSE [done |-> TRUE, ok |-> FALSE, buf |-> filled,
                   kind |-> out.kind, io |-> io2, rest |-> Tail(script)]

\* Mutant of read_bytes: the read is attempted without looking at the handle.
read_bytes_unchecked(spi, script) ==
    LET r == read_exact(script, <<>>, <<>>)
    IN  [done |-> r.done,
         ret  |-> IF r.ok THEN Ok(from_be_bytes(r.buf)) ELSE IoError(r.kind),
         io   |-> r.io, spi |-> spi, rest |-> r.rest]

\* Mutant of read_bytes: the handle is moved out of the driver by the read
\* (Option::take) and not put back.
read_bytes_take(spi, script) ==
    IF spi = None
    THEN [done |-> TRUE, ret |-> SpiUninitialized, io |-> <<>>, spi |-> spi,
          rest |-> script]
    ELSE LET r == read_exact(script, <<>>, <<>>)
         IN  [done |-> r.done,
              ret  |-> IF r.ok THEN Ok(from_be_bytes(r.buf)) ELSE IoError(r.kind),
              io   |-> r.io, spi |-> None, rest |-> r.rest]

\* Max6675::read_bytes: the result, the syscalls made and the handle left in
\* the driver.
read_bytes(spi, script) ==
    IF spi = None
    THEN [done |-> TRUE, ret |-> SpiUninitialized, io |-> <<>>, spi |-> spi,
          rest |-> script]
    ELSE LET r == read_exact(script, <<>>, <<>>)
         IN  [done |-> r.done,
              ret  |-> IF r.ok THEN Ok(from_be_bytes(r.buf)) ELSE IoError(r.kind),
              io   |-> r.io, spi |-> spi, rest |-> r.rest]

\* Mutant of is_open_bit: bit D1 tested in place of D2.
is_open_bit_d1(bytes) == BitAnd(bytes, 2) # 0

\* lib.rs:140, the test is_open makes on the word.
is_open_bit(bytes) == BitAnd(bytes, 4) # 0

\* Max6675::is_open
is_open(spi, script) ==
    LET r == read_bytes(spi, script)
    IN  IF r.ret.kind = "Err" THEN r
        ELSE [r EXCEPT !.ret = Ok(is_open_bit(r.ret.val))]

\* Mutant of input_open: bit D3 tested in place of D2.
input_open_d3(bytes) == BitAnd(bytes, 8) # 0

\* lib.rs:172, the input-open test read_celsius makes on the word.
input_open(bytes) == BitAnd(bytes, 4) # 0

\* lib.rs:177, the number of 0.25-degree steps read_celsius returns.
quarter_steps(bytes) == BitAnd(8191, Shr(bytes, 3))

\* Max6675::read_celsius
read_celsius(spi, script) ==
    LET r == read_bytes(spi, script)
    IN  IF r.ret.kind = "Err" THEN r
        ELSE IF input_open(r.ret.val) THEN [r EXCEPT !.ret = OpenCircuitError]
        ELSE [r EXCEPT !.ret = Ok(quarter_steps(r.ret.val))]

\* Results of Spidev::open(path).
OpenResults == {"Ok", "NotFound", "PermissionDenied"}

\* Results of spi.configure(&options).
ConfigureResults == {"Ok", "Other"}

\* configure is not reached when open fails.
NotCalled == "NotCalled"

\* Mutant of connect: the handle is stored before it is configured.
connect_store_first(spi, path, open, cfg) ==
    IF open # "Ok" THEN [ret |-> IoError(open), spi |-> spi]
    ELSE IF cfg # "Ok" THEN [ret |-> IoError(cfg), spi |-> path]
    ELSE [ret |-> Ok(0), spi |-> path]

\* Max6675::connect: the result and the handle left in the driver.
connect(spi, path, open, cfg) ==
    IF open # "Ok" THEN [ret |-> IoError(open), spi |-> spi]
    ELSE IF cfg # "Ok" THEN [ret |-> IoError(cfg), spi |-> spi]
    ELSE [ret |-> Ok(0), spi |-> path]

\* Max6675::is_initialized
is_initialized(spi) == spi # None

(* ------------------------------- state -------------------------------- *)

VARIABLES
    spi,            \* Max6675.spi: None or the stored handle
    pc,             \* the caller: "idle" between calls, "returned" holding a result
    call,           \* the call that has just returned
    everConnected   \* history: some connect has returned Ok

vars == <<spi, pc, call, everConnected>>

NoCall == [op |-> "none", pre |-> None, path |-> "", open |-> "", cfg |-> "",
           ret |-> Ok(0), io |-> <<>>]

\* Max6675::new()
Init ==
    /\ spi = None
    /\ pc = "idle"
    /\ call = NoCall
    /\ everConnected = FALSE

Connect ==
    /\ pc = "idle"
    /\ \E path \in Paths, open \in OpenResults :
       \E cfg \in IF open = "Ok" THEN ConfigureResults ELSE {NotCalled} :
         LET r == connect(spi, path, open, cfg)
         IN  /\ spi' = r.spi
             /\ call' = [NoCall EXCEPT !.op = "connect", !.pre = spi, !.path = path,
                                       !.open = open, !.cfg = cfg, !.ret = r.ret]
             /\ everConnected' = (everConnected \/ r.ret.kind = "Ok")
    /\ pc' = "returned"

IsInitialized ==
    /\ pc = "idle"
    /\ call' = [NoCall EXCEPT !.op = "is_initialized", !.pre = spi,
                              !.ret = Ok(is_initialized(spi))]
    /\ pc' = "returned"
    /\ UNCHANGED <<spi, everConnected>>

\* The shapes of the transport's answers offered to one read: no syscall
\* answered, or a shape of Shapes.
Offers == {<<>>} \cup Shapes(2, MaxReads)

ReadBytes ==
    /\ pc = "idle"
    /\ \E shape \in Offers : \E bs \in ByteSeqs(Delivered(shape)) :
         LET r == read_bytes(spi, Answers(shape, bs))
         IN  /\ r.done /\ r.rest = <<>>
             /\ spi' = r.spi
             /\ call' = [NoCall EXCEPT !.op = "read_bytes", !.pre = spi,
                                       !.ret = r.ret, !.io = r.io]
    /\ pc' = "returned"
    /\ UNCHANGED everConnected

IsOpen ==
    /\ pc = "idle"
    /\ \E shape \in Offers : \E bs \in ByteSeqs(Delivered(shape)) :
         LET r == is_open(spi, Answers(shape, bs))
         IN  /\ r.done /\ r.rest = <<>>
             /\ spi' = r.spi
             /\ call' = [NoCall EXCEPT !.op = "is_open", !.pre = spi,
                                       !.ret = r.ret, !.io = r.io]
    /\ pc' = "returned"
    /\ UNCHANGED everConnected

ReadCelsius ==
    /\ pc = "idle"
    /\ \E shape \in Offers : \E bs \in ByteSeqs(Delivered(shape)) :
         LET r == read_celsius(spi, Answers(shape, bs))
         IN  /\ r.done /\ r.rest = <<>>
             /\ spi' = r.spi
             /\ call' = [NoCall EXCEPT !.op = "read_celsius", !.pre = spi,
                                       !.ret = r.ret, !.io = r.io]
    /\ pc' = "returned"
    /\ UNCHANGED everConnected

\* The caller takes the returned value and goes on to its next call.
Return ==
    /\ pc = "returned"
    /\ pc' = "idle"
    /\ call' = NoCall
    /\ UNCHANGED <<spi, everConnected>>

Next ==
    \/ Connect
    \/ IsInitialized
    \/ ReadBytes
    \/ IsOpen
    \/ ReadCelsius
    \/ Return

Spec == Init /\ [][Next]_vars

(* ------------------------------ claims -------------------------------- *)

ReadOps == {"read_bytes", "is_open", "read_celsius"}

\* The call `op` has just returned.
Returned(op) == pc = "returned" /\ call.op = op

\* The bytes the transport delivered over the syscalls `io`, in order of arrival.
RECURSIVE RxBytes(_)
RxBytes(io) ==
    IF io = <<>> THEN <<>> ELSE Head(io).out.bytes \o RxBytes(Tail(io))

\* The bytes delivered to the call that has just returned.
Rx == RxBytes(call.io)

\* The 16-bit word delivered: first byte D15..D8, second byte D7..D0.
RxWord == Rx[1] * 256 + Rx[2]

\* Bit D2 of word w.
D2(w) == (w \div 4) % 2 = 1

\* C1: whenever the SPI read delivers a word with bit D2 set to read_celsius on
\* a connected driver, read_celsius returns the open-circuit error and no
\* temperature.
C1_OpenCircuitNeverNumeric ==
    (Returned("read_celsius") /\ call.pre # None /\ Len(Rx) = 2 /\ D2(RxWord))
        => call.ret = OpenCircuitError

\* C1 witness: read_celsius over the word 0x0004 has failed with the
\* open-circuit error.
C1_Witness ==
    /\ Returned("read_celsius")
    /\ call.pre # None
    /\ Rx = <<0, 4>>
    /\ call.ret = OpenCircuitError

\* C2 (as claimed): for every delivered word with D2 clear, read_celsius
\* returns ((w >> 3) & 0x0FFF) quarter-degrees, bit D15 having no effect.
C2_TwelveBitMagnitude ==
    (Returned("read_celsius") /\ call.pre # None /\ Len(Rx) = 2 /\ ~D2(RxWord))
        => call.ret = Ok((RxWord \div 8) % 4096)

\* C3: a read operation on a driver that holds no handle fails with
\* SpiUninitialized and makes no read syscall on the bus.
C3_NotConnectedNoRead ==
    (pc = "returned" /\ call.op \in ReadOps /\ call.pre = None)
        => (call.ret = SpiUninitialized /\ call.io = <<>>)

\* C3 witness: is_open on a never-connected driver has returned
\* SpiUninitialized.
C3_Witness ==
    /\ Returned("is_open")
    /\ call.pre = None
    /\ ~everConnected
    /\ call.ret = SpiUninitialized

\* Some syscall of the call delivered fewer than 2 bytes without an error.
ShortRead ==
    \E i \in 1..Len(call.io) :
        call.io[i].out.t = "Data" /\ Len(call.io[i].out.bytes) < 2

\* C4 (as claimed): when the transport delivers fewer than 2 bytes for a read
\* without reporting an error, read_bytes and read_celsius fail, and with an
\* error kind other than the transport error IoError.
C4_ShortReadIsNoData ==
    (pc = "returned" /\ call.op \in {"read_bytes", "read_celsius"} /\ ShortRead)
        => (call.ret.kind = "Err" /\ call.ret.err # "IoError")

\* C5 (as claimed): when a read syscall reports an error, the read operation
\* returns IoError carrying that error, and no value.
C5_TransportErrorPropagates ==
    (pc = "returned" /\ call.op \in ReadOps)
        => \A i \in 1..Len(call.io) :
               call.io[i].out.t = "Err" => call.ret = IoError(call.io[i].out.kind)

\* C6: when the transport delivers 2 bytes to read_bytes, read_bytes returns
\* the word first byte * 256 + second byte.
C6_BigEndianWord ==
    (Returned("read_bytes") /\ call.pre # None /\ Len(Rx) = 2)
        => call.ret = Ok(Rx[1] * 256 + Rx[2])

\* C6 witness: read_bytes has received 0x01 then 0x90 and returned 0x0190.
C6_Witness ==
    /\ Returned("read_bytes")
    /\ Rx = <<1, 144>>
    /\ call.ret = Ok(400)

\* C7: for every word successfully read, is_open returns true exactly when
\* bit D2 of the word is set.
C7_IsOpenIffD2 ==
    (Returned("is_open") /\ call.pre # None /\ Len(Rx) = 2)
        => call.ret = Ok(D2(RxWord))

\* C7 witness: is_open over 0xFFFB, every bit but D2 set, has returned false.
C7_Witness ==
    /\ Returned("is_open")
    /\ Rx = <<255, 251>>
    /\ call.ret = Ok(FALSE)

\* C8: a connect whose open or configure step fails returns IoError and
\* leaves the stored handle as it was before the call.
C8_FailedConnectKeepsHandle ==
    (Returned("connect") /\ (call.open # "Ok" \/ call.cfg # "Ok"))
        => /\ call.ret.kind = "Err"
           /\ call.ret.err = "IoError"
           /\ spi = call.pre
           /\ is_initialized(spi) = is_initialized(call.pre)

\* C8 witness: a driver connected to one device has failed to configure a
\* second one and still holds the handle of the first.
C8_Witness ==
    /\ Returned("connect")
    /\ call.pre = "/dev/spidev0.0"
    /\ call.path = "/dev/spidev0.1"
    /\ call.open = "Ok"
    /\ call.cfg = "Other"
    /\ call.ret = IoError("Other")
    /\ spi = "/dev/spidev0.0"

\* C9 (as claimed): every read operation on a connected driver makes exactly
\* one read syscall, of 2 bytes.
C9_SingleTransaction ==
    (pc = "returned" /\ call.op \in ReadOps /\ call.pre # None)
        => (Len(call.io) = 1 /\ call.io[1].req = 2)

=============================================================================
